---- MODULE Spec2Model ----
(***************************************************************************)
(* careamics_restoration/config/algorithm.py: the pydantic (v2) models     *)
(* ModelParameters and Algorithm, their construction-time validation, and  *)
(* what happens to constructed objects afterwards (attribute assignment,   *)
(* model_dump and re-construction).                                        *)
(*                                                                         *)
(* Objects live in a heap: mps[i] is the ModelParameters object with       *)
(* identity i, algs[j] the Algorithm object with identity j; an Algorithm  *)
(* holds its model_parameters as a reference (an index of mps), as Python  *)
(* does.  masked_pixel_percentage is a float in the code; the model counts *)
(* it in hundredths (0.2 is 20, 0.1 is 10, 20 is 2000).                    *)
(*                                                                         *)
(* An optional keyword argument is a set: {} when the caller omits it,     *)
(* {v} when the caller passes v.                                           *)
(***************************************************************************)
EXTENDS Integers, Sequences, FiniteSets, TLC

VARIABLES
    mps,     \* heap of ModelParameters objects (mps[1] is the class-level default)
    algs,    \* heap of Algorithm objects
    held,    \* identities of the ModelParameters objects the caller built itself
    dirty,   \* Algorithm objects assigned to (or whose embedded object was) since built
    result,  \* outcome of the last operation
    call,    \* SpecCalls: the one constructor call to be made
    pc       \* SpecCalls: "pending" before that call, "done" after; Spec: "idle"

vars == <<mps, algs, held, dirty, result, call, pc>>

----------------------------------------------------------------------------
(* Bounds of the model *)

\* how far beyond the limits of a range the integer arguments are drawn
Spread == 3
\* ModelParameters plus Algorithm objects alive at once (class default included)
MaxObjects == 5

----------------------------------------------------------------------------
(* Constants of the program *)

DepthDefault == 2
DepthGe == 1
DepthLe == 10
NumFiltersBaseDefault == 96
NumFiltersBaseMin == 8
\* hundredths
MaskedPixelPercentageDefault == 20
MaskedPixelPercentageGe == 10
MaskedPixelPercentageLe == 2000

----------------------------------------------------------------------------
(* Values *)

\* a plain str, and a member of a str-backed Enum class
Str(s) == [cls |-> "str", value |-> s]
Member(c, s) == [cls |-> c, value |-> s]

Losses == {Member("Losses", "n2v")}
Models == {Member("Models", "UNet")}
MaskingStrategies == {Member("MaskingStrategies", "default")}
MaskingStrategiesDEFAULT == Member("MaskingStrategies", "default")

\* ==  between str values: a member of a (str, Enum) class compares as its string
PyEq(a, b) == a.value = b.value

The(S) == CHOOSE x \in S : TRUE
Opt(S) == {{}} \cup {{x} : x \in S}

Err(loc, type) == [loc |-> loc, type |-> type]

----------------------------------------------------------------------------
(* ModelParameters *)

\* mutant: the lower limit taken as exclusive
DepthErrorsGt(d) ==
    IF d <= DepthGe THEN {"greater_than_equal"}
    ELSE IF d > DepthLe THEN {"less_than_equal"}
    ELSE {}

\* depth: int = Field(default=2, ge=1, le=10)
DepthErrors(d) ==
    IF d < DepthGe THEN {"greater_than_equal"}
    ELSE IF d > DepthLe THEN {"less_than_equal"}
    ELSE {}

\* mutant: the parity check left out
NumFilterBaseNoParity(num_filters) ==
    IF num_filters < NumFiltersBaseMin THEN {"at_least_8"} ELSE {}

\* mutant: both checks run and both failures are collected
NumFilterBaseCollectsAll(num_filters) ==
    (IF num_filters % 2 # 0 THEN {"must_even"} ELSE {})
    \cup (IF num_filters < NumFiltersBaseMin THEN {"at_least_8"} ELSE {})

\* the field validator of num_filters_base: the first raise ends it
num_filter_base_must_even(num_filters) ==
    IF num_filters % 2 # 0 THEN {"must_even"}
    ELSE IF num_filters < NumFiltersBaseMin THEN {"at_least_8"}
    ELSE {}

\* Errors of ModelParameters(**kw), each under the path prefix.  A field the
\* caller omits takes its default, which is not validated.
ModelParametersErrors(kw, prefix) ==
    {Err(prefix \o <<"depth">>, t) :
        t \in (IF kw.depth = {} THEN {} ELSE DepthErrors(The(kw.depth)))}
    \cup
    {Err(prefix \o <<"num_filters_base">>, t) :
        t \in (IF kw.num_filters_base = {} THEN {}
               ELSE num_filter_base_must_even(The(kw.num_filters_base)))}

\* The object ModelParameters(**kw) builds when there is no error
ModelParametersValue(kw) ==
    [depth |-> IF kw.depth = {} THEN DepthDefault ELSE The(kw.depth),
     num_filters_base |-> IF kw.num_filters_base = {} THEN NumFiltersBaseDefault
                          ELSE The(kw.num_filters_base)]

NoKw == [depth |-> {}, num_filters_base |-> {}]

----------------------------------------------------------------------------
(* Algorithm *)

\* a field typed by an Enum class: a member, or a value of one of its members
EnumErrors(enum, v) ==
    IF \E m \in enum : m.value = v.value THEN {} ELSE {"enum"}

\* use_enum_values=True: validation stores the member's value, a plain str
EnumStored(enum, v) == Str((CHOOSE m \in enum : m.value = v.value).value)

Required(enum, arg) ==
    IF arg = {} THEN {"missing"} ELSE EnumErrors(enum, The(arg))

\* mutant: the upper limit taken as exclusive
MaskedPixelPercentageErrorsLt(p) ==
    IF p < MaskedPixelPercentageGe THEN {"greater_than_equal"}
    ELSE IF p >= MaskedPixelPercentageLe THEN {"less_than_equal"}
    ELSE {}

\* masked_pixel_percentage: float = Field(default=0.2, ge=0.1, le=20)
MaskedPixelPercentageErrors(p) ==
    IF p < MaskedPixelPercentageGe THEN {"greater_than_equal"}
    ELSE IF p > MaskedPixelPercentageLe THEN {"less_than_equal"}
    ELSE {}

\* The model_parameters argument: omitted, a mapping of fields, or an object
MpOmitted == [form |-> "omitted", kw |-> NoKw, ref |-> 0]
MpMapping(kw) == [form |-> "mapping", kw |-> kw, ref |-> 0]
MpInstance(i) == [form |-> "instance", kw |-> NoKw, ref |-> i]

\* A mapping is validated by ModelParameters; an instance of ModelParameters is
\* taken as it is (pydantic's revalidate_instances is 'never' unless configured).
ModelParametersArgErrors(arg) ==
    IF arg.form = "mapping"
    THEN ModelParametersErrors(arg.kw, <<"model_parameters">>)
    ELSE {}

AlgorithmErrors(kw) ==
    {Err(<<"loss">>, t) : t \in Required(Losses, kw.loss)}
    \cup {Err(<<"model">>, t) : t \in Required(Models, kw.model)}
    \cup {Err(<<"is_3D">>, t) : t \in (IF kw.is_3D = {} THEN {"missing"} ELSE {})}
    \cup {Err(<<"masking_strategy">>, t) :
            t \in (IF kw.masking_strategy = {} THEN {}
                   ELSE EnumErrors(MaskingStrategies, The(kw.masking_strategy)))}
    \cup {Err(<<"masked_pixel_percentage">>, t) :
            t \in (IF kw.masked_pixel_percentage = {} THEN {}
                   ELSE MaskedPixelPercentageErrors(The(kw.masked_pixel_percentage)))}
    \cup ModelParametersArgErrors(kw.model_parameters)

ClassDefault == 1

\* mutant: the class-level default object itself is embedded, not a copy
EmbedDefaultShared(heap) == [heap |-> heap, ref |-> ClassDefault]

\* model_parameters omitted: the default, ModelParameters() built once when the
\* class is defined, is not hashable, so each use of it is a deep copy
EmbedDefault(heap) ==
    [heap |-> Append(heap, heap[ClassDefault]), ref |-> Len(heap) + 1]

\* The object that becomes the new Algorithm's model_parameters
Embed(heap, arg) ==
    CASE arg.form = "omitted" -> EmbedDefault(heap)
      [] arg.form = "mapping" ->
            [heap |-> Append(heap, ModelParametersValue(arg.kw)),
             ref |-> Len(heap) + 1]
      [] arg.form = "instance" -> [heap |-> heap, ref |-> arg.ref]

\* mutant: the default masked_pixel_percentage is 2 (percent) instead of 0.2
MaskedPixelPercentageStoredDefault2(arg) ==
    IF arg = {} THEN 200 ELSE The(arg)

MaskedPixelPercentageStored(arg) ==
    IF arg = {} THEN MaskedPixelPercentageDefault ELSE The(arg)

\* The fields of the Algorithm built from kw when there is no error; a default
\* is stored as written in the class (validate_default is off)
AlgorithmValue(kw, ref) ==
    [loss |-> EnumStored(Losses, The(kw.loss)),
     model |-> EnumStored(Models, The(kw.model)),
     is_3D |-> The(kw.is_3D),
     masking_strategy |->
        IF kw.masking_strategy = {} THEN MaskingStrategiesDEFAULT
        ELSE EnumStored(MaskingStrategies, The(kw.masking_strategy)),
     masked_pixel_percentage |->
        MaskedPixelPercentageStored(kw.masked_pixel_percentage),
     model_parameters |-> ref]

\* model_dump(): every field with its stored value, the nested model as a dict
ModelDump(a, heap) ==
    [loss |-> {a.loss},
     model |-> {a.model},
     is_3D |-> {a.is_3D},
     masking_strategy |-> {a.masking_strategy},
     masked_pixel_percentage |-> {a.masked_pixel_percentage},
     model_parameters |->
        MpMapping([depth |-> {heap[a.model_parameters].depth},
                   num_filters_base |-> {heap[a.model_parameters].num_filters_base}])]

\* BaseModel.__eq__: the fields compare equal, nested models by their fields
AlgorithmEq(a, b, heap) ==
    /\ PyEq(a.loss, b.loss)
    /\ PyEq(a.model, b.model)
    /\ a.is_3D = b.is_3D
    /\ PyEq(a.masking_strategy, b.masking_strategy)
    /\ a.masked_pixel_percentage = b.masked_pixel_percentage
    /\ heap[a.model_parameters] = heap[b.model_parameters]

----------------------------------------------------------------------------
(* Operations *)

Outcome(op, form, arg, errs, ref) ==
    [op |-> op, form |-> form, arg |-> arg, ok |-> errs = {}, errors |-> errs,
     ref |-> ref]

NoResult == Outcome("none", "none", 0, {}, 0)

Objects(m, a) == Len(m) + Len(a)

\* ModelParameters(**kw): the object, or a ValidationError with every error
ConstructModelParameters(kw) ==
    LET errs == ModelParametersErrors(kw, <<>>) IN
    IF errs # {}
    THEN /\ result' = Outcome("ModelParameters", "none", 0, errs, 0)
         /\ UNCHANGED <<mps, algs, held, dirty>>
    ELSE /\ Objects(mps, algs) + 1 <= MaxObjects
         /\ mps' = Append(mps, ModelParametersValue(kw))
         /\ held' = held \cup {Len(mps) + 1}
         /\ result' = Outcome("ModelParameters", "none", 0, {}, Len(mps) + 1)
         /\ UNCHANGED <<algs, dirty>>

\* Algorithm(**kw), called as operation op (the constructor, or a round trip of arg)
BuildAlgorithm(op, arg, kw) ==
    LET errs == AlgorithmErrors(kw)
        form == kw.model_parameters.form
    IN
    IF errs # {}
    THEN /\ result' = Outcome(op, form, arg, errs, 0)
         /\ UNCHANGED <<mps, algs, held, dirty>>
    ELSE LET e == Embed(mps, kw.model_parameters) IN
         /\ Objects(e.heap, algs) + 1 <= MaxObjects
         /\ mps' = e.heap
         /\ algs' = Append(algs, AlgorithmValue(kw, e.ref))
         /\ result' = Outcome(op, form, arg, {}, Len(algs) + 1)
         /\ UNCHANGED <<held, dirty>>

ConstructAlgorithm(kw) == BuildAlgorithm("Algorithm", 0, kw)

(* Arguments drawn in Spec *)
HeapDepths == {DepthLe + 1}
HeapNumFilters == {NumFiltersBaseMin - 1}
HeapPercentages == {MaskedPixelPercentageLe + 50}

HeapModelParametersArgs ==
    [depth : Opt(HeapDepths), num_filters_base : Opt(HeapNumFilters)]

HeapMappings == [depth : Opt(HeapDepths), num_filters_base : {{}}]

HeapAlgorithmArgs ==
    [loss : {{Str("n2v")}},
     model : {{Member("Models", "UNet")}},
     is_3D : {{FALSE}},
     masking_strategy : {{}},
     masked_pixel_percentage : {{}},
     model_parameters : {MpOmitted} \cup {MpMapping(m) : m \in HeapMappings}
                        \cup {MpInstance(i) : i \in held}]

NewModelParameters ==
    /\ \E kw \in HeapModelParametersArgs : ConstructModelParameters(kw)
    /\ UNCHANGED <<call, pc>>

NewAlgorithm ==
    /\ \E kw \in HeapAlgorithmArgs : ConstructAlgorithm(kw)
    /\ UNCHANGED <<call, pc>>

\* the ModelParameters objects a caller reaches: its own, and an Algorithm's
Reachable == held \cup {algs[a].model_parameters : a \in DOMAIN algs}

Embedding(m) == {a \in DOMAIN algs : algs[a].model_parameters = m}

\* mp.depth = v, mp.num_filters_base = v: no validate_assignment, no frozen
SetModelParametersAttr ==
    /\ \E m \in Reachable :
          /\ \/ \E v \in HeapDepths : mps' = [mps EXCEPT ![m].depth = v]
             \/ \E v \in HeapNumFilters :
                    mps' = [mps EXCEPT ![m].num_filters_base = v]
          /\ dirty' = dirty \cup Embedding(m)
          /\ result' = Outcome("setattr", "none", 0, {}, 0)
    /\ UNCHANGED <<algs, held, call, pc>>

\* a.masked_pixel_percentage = v, a.model_parameters = mp
SetAlgorithmAttr ==
    /\ \E a \in DOMAIN algs :
          /\ \/ \E v \in HeapPercentages :
                    algs' = [algs EXCEPT ![a].masked_pixel_percentage = v]
             \/ \E m \in held : algs' = [algs EXCEPT ![a].model_parameters = m]
          /\ dirty' = dirty \cup {a}
          /\ result' = Outcome("setattr", "none", 0, {}, 0)
    /\ UNCHANGED <<mps, held, call, pc>>

\* Algorithm(**a.model_dump())
RoundTrip ==
    /\ \E a \in DOMAIN algs : BuildAlgorithm("roundtrip", a, ModelDump(algs[a], mps))
    /\ UNCHANGED <<call, pc>>

HeapInit ==
    /\ mps = <<ModelParametersValue(NoKw)>>
    /\ algs = <<>>
    /\ held = {}
    /\ dirty = {}
    /\ result = NoResult

NoCall == [op |-> "none", kw |-> NoKw]

Init ==
    /\ HeapInit
    /\ call = NoCall
    /\ pc = "idle"

Next ==
    \/ NewModelParameters
    \/ NewAlgorithm
    \/ SetModelParametersAttr
    \/ SetAlgorithmAttr
    \/ RoundTrip

Spec == Init /\ [][Next]_vars

----------------------------------------------------------------------------
(* One constructor call on the freshly imported module: the arguments are   *)
(* drawn in the initial state and the call is made once.                    *)

DepthArgs == (DepthGe - Spread)..(DepthLe + Spread)
NumFiltersArgs ==
    ((0 - Spread)..(NumFiltersBaseMin + Spread)) \cup {NumFiltersBaseDefault}
\* around both limits, the default, and 0.05 and 20.5
MaskedPixelPercentageArgs ==
    ((MaskedPixelPercentageGe - Spread)..(MaskedPixelPercentageGe + Spread))
    \cup ((MaskedPixelPercentageLe - Spread)..(MaskedPixelPercentageLe + Spread))
    \cup {MaskedPixelPercentageDefault, 5, 2050}

ModelParametersCalls ==
    [depth : Opt(DepthArgs), num_filters_base : Opt(NumFiltersArgs)]

\* the fields of a nested mapping: the values next to each limit
EdgeMappings ==
    [depth : Opt({DepthGe - 1, DepthGe, DepthLe, DepthLe + 1}),
     num_filters_base : Opt((NumFiltersBaseMin - 2)..(NumFiltersBaseMin + 1))]

AlgorithmCalls ==
    [loss : Opt({Str("n2v"), Member("Losses", "n2v"), Str("invalidloss")}),
     model : Opt({Str("UNet"), Member("Models", "UNet"), Str("invalidmodel")}),
     is_3D : Opt(BOOLEAN),
     masking_strategy :
        Opt({Str("default"), Member("MaskingStrategies", "default"), Str("other")}),
     masked_pixel_percentage : Opt(MaskedPixelPercentageArgs),
     model_parameters : {MpOmitted} \cup {MpMapping(m) : m \in EdgeMappings}]

InitCalls ==
    /\ HeapInit
    /\ pc = "pending"
    /\ call \in {[op |-> "ModelParameters", kw |-> kw] : kw \in ModelParametersCalls}
                \cup {[op |-> "Algorithm", kw |-> kw] : kw \in AlgorithmCalls}

CallModelParameters ==
    /\ pc = "pending"
    /\ call.op = "ModelParameters"
    /\ ConstructModelParameters(call.kw)
    /\ pc' = "done"
    /\ UNCHANGED call

CallAlgorithm ==
    /\ pc = "pending"
    /\ call.op = "Algorithm"
    /\ ConstructAlgorithm(call.kw)
    /\ pc' = "done"
    /\ UNCHANGED call

NextCalls == CallModelParameters \/ CallAlgorithm

SpecCalls == InitCalls /\ [][NextCalls]_vars

----------------------------------------------------------------------------
(* Properties *)

Made(op) == pc = "done" /\ call.op = op
At(field) == {e \in result.errors : e.loc = <<field>>}
Even(n) == n % 2 = 0

DepthAccepted ==
    (Made("ModelParameters") /\ call.kw.num_filters_base = {} /\ call.kw.depth # {})
    => LET d == The(call.kw.depth) IN
       /\ result.ok <=> (1 <= d /\ d <= 10)
       /\ result.ok => mps[result.ref] = [depth |-> d, num_filters_base |-> 96]
       /\ d < 1 => result.errors = {Err(<<"depth">>, "greater_than_equal")}
       /\ d > 10 => result.errors = {Err(<<"depth">>, "less_than_equal")}

DepthBoundaries ==
    /\ Made("ModelParameters")
    /\ call.kw = [depth |-> {1}, num_filters_base |-> {}]
    /\ result.ok

\* C5: with valid loss, model and is_3D and the other fields omitted,
\* Algorithm(masked_pixel_percentage=p) succeeds exactly when 0.1 <= p <= 20
\* and then stores p; otherwise it fails with a range error on that field and
\* no Algorithm exists, so the default never stands in for a rejected value.
MaskedPixelPercentageAccepted ==
    (/\ Made("Algorithm")
     /\ call.kw.loss # {} /\ The(call.kw.loss).value = "n2v"
     /\ call.kw.model # {} /\ The(call.kw.model).value = "UNet"
     /\ call.kw.is_3D # {}
     /\ call.kw.masking_strategy = {}
     /\ call.kw.model_parameters.form = "omitted"
     /\ call.kw.masked_pixel_percentage # {})
    => LET p == The(call.kw.masked_pixel_percentage) IN
       /\ result.ok <=> (10 <= p /\ p <= 2000)
       /\ result.ok => algs[result.ref].masked_pixel_percentage = p
       /\ p < 10 => result.errors = {Err(<<"masked_pixel_percentage">>, "greater_than_equal")}
       /\ p > 2000 => result.errors = {Err(<<"masked_pixel_percentage">>, "less_than_equal")}
       /\ ~result.ok => algs = <<>>

MaskedPixelPercentageUpperEnd ==
    /\ Made("Algorithm")
    /\ call.kw.masking_strategy = {}
    /\ call.kw.model_parameters.form = "omitted"
    /\ call.kw.masked_pixel_percentage = {2000}
    /\ result.ok

MinimalCall ==
    [loss |-> {Str("n2v")}, model |-> {Str("UNet")}, is_3D |-> {FALSE},
     masking_strategy |-> {}, masked_pixel_percentage |-> {},
     model_parameters |-> MpOmitted]

\* C6: Algorithm(loss="n2v", model="UNet", is_3D=False) succeeds with
\* masking_strategy equal to "default", masked_pixel_percentage 0.2 and
\* model_parameters of depth 2 and num_filters_base 96, which satisfy the rules
\* of ModelParameters.
DefaultsFilledIn ==
    (Made("Algorithm") /\ call.kw = MinimalCall)
    => /\ result.ok
       /\ LET a == algs[result.ref]
              mp == mps[a.model_parameters]
          IN /\ PyEq(a.masking_strategy, Str("default"))
             /\ a.masked_pixel_percentage = 20
             /\ a.is_3D = FALSE
             /\ mp = [depth |-> 2, num_filters_base |-> 96]
             /\ 1 <= mp.depth /\ mp.depth <= 10
             /\ Even(mp.num_filters_base) /\ mp.num_filters_base >= 8

MinimalCallMade == Made("Algorithm") /\ call.kw = MinimalCall /\ Len(algs) = 1

\* C7: in every constructed Algorithm loss, model and masking_strategy are
\* stored as plain strings, never as enum members.
EnumsStoredAsStrings ==
    \A a \in DOMAIN algs :
        /\ algs[a].loss.cls = "str"
        /\ algs[a].model.cls = "str"
        /\ algs[a].masking_strategy.cls = "str"

ObjectsStayValid ==
    /\ \A i \in DOMAIN mps :
          /\ 1 <= mps[i].depth /\ mps[i].depth <= 10
          /\ Even(mps[i].num_filters_base) /\ mps[i].num_filters_base >= 8
    /\ \A a \in DOMAIN algs :
          10 <= algs[a].masked_pixel_percentage
          /\ algs[a].masked_pixel_percentage <= 2000

\* C3: an Algorithm that has just been constructed embeds a ModelParameters
\* that satisfies the rules, in whatever form model_parameters was supplied.
SuppliedModelParametersValidated ==
    (result.op = "Algorithm" /\ result.ok)
    => LET mp == mps[algs[result.ref].model_parameters] IN
       /\ 1 <= mp.depth /\ mp.depth <= 10
       /\ Even(mp.num_filters_base) /\ mp.num_filters_base >= 8

\* C9: dumping an Algorithm, untouched since it was constructed, and
\* constructing an Algorithm from the dump succeeds and gives an equal object.
RoundTripEqual ==
    (result.op = "roundtrip" /\ result.arg \notin dirty)
    => /\ result.ok
       /\ AlgorithmEq(algs[result.arg], algs[result.ref], mps)

====
